---- MODULE Spec2Model ----
(***************************************************************************)
(* Model of the pydantic_ai tutorial scripts: five agents, their result    *)
(* schemas, their tools, one run_sync call of an agent, and the input loop  *)
(* of the Day 2 scripts that makes one run_sync call after another.        *)
(*                                                                         *)
(* The scripts configure pydantic_ai agents and call Agent.run_sync; the   *)
(* run loop is what that call does: one model request per turn, bounded    *)
(* by UsageLimits.request_limit, function tools of a response started as   *)
(* asyncio tasks and gathered, result validation by pydantic with a retry  *)
(* prompt counted against the agent's retries.                             *)
(*                                                                         *)
(* Numbers of type float are kept in tenths (4.5 is 45), ints in units.    *)
(***************************************************************************)
EXTENDS Integers, Sequences, FiniteSets, TLC

(***************************************************************************)
(* Bounds of the model.                                                    *)
(***************************************************************************)
MaxTurns == 3

MaxCalls == 2

MaxPlaces == 2

MaxRequests == 2

(***************************************************************************)
(* Agents and their configuration.                                         *)
(***************************************************************************)
Agents ==
  { "travel_agent_day1", "travel_agent_day2", "weather_agent",
    "market_research_agent", "finance_agent" }

\* Agent(retries=...) when the keyword is not given.
DefaultRetries == 1

Retries3 == 3

\* Agent(..., retries=N): the retries of result validation and the default
\* max_retries of the agent's tools.
AgentRetries(a) ==
  IF a \in {"market_research_agent", "finance_agent"} THEN Retries3
  ELSE DefaultRetries

\* The function tools registered on each agent.
Tools(a) ==
  CASE a = "weather_agent" -> {"get_current_weather_details"}
    [] a = "market_research_agent" ->
         { "get_stock_ticker_symbol", "get_current_stock_price",
           "get_company_overview_and_financials", "get_company_news" }
    [] a = "finance_agent" ->
         {"get_stock_ticker_symbol", "get_latest_financial_news"}
    [] OTHER -> {}

AllTools == UNION { Tools(a) : a \in Agents }

\* A tool name no agent declares.
UndeclaredTool == "undeclared_tool"

\* Tools registered with @agent.tool: their first parameter is the RunContext
\* that carries deps.
TakesCtx(t) ==
  t \in { "get_current_weather_details", "get_current_stock_price",
          "get_company_overview_and_financials", "get_company_news" }

\* Tools defined with "def" run in an executor thread; "async def" tools run
\* as coroutines on the event loop, and these never await.
IsAsync(t) == t # "get_current_weather_details"

\* Tool.max_retries: tool_plain(retries=3), else the agent's retries.
ToolMaxRetries(a, t) ==
  IF a = "market_research_agent" /\ t = "get_stock_ticker_symbol" THEN Retries3
  ELSE AgentRetries(a)

\* Agents whose deps carry an API key that may be None.
HasApiKey(a) == a \in {"weather_agent", "market_research_agent"}

(***************************************************************************)
(* Result schemas.  A field is [name, type, required, ge, le]; ge and le   *)
(* are sets holding the bound, empty when the field has none.              *)
(***************************************************************************)
Fld(n, ty, req) == [name |-> n, type |-> ty, required |-> req, ge |-> {}, le |-> {}]

\* rating: float = Field(..., ge=0.0, le=5.0)
RatingField ==
  [name |-> "rating", type |-> "float", required |-> TRUE, ge |-> {0}, le |-> {50}]

TouristPlaceDay1 ==
  { Fld("name", "str", TRUE), Fld("description", "str", TRUE),
    Fld("zip_code", "int", TRUE), Fld("best_time_to_visit", "str", TRUE),
    Fld("entry_fee", "float", FALSE), RatingField }

TouristPlaceDay2 ==
  { Fld("name", "str", TRUE), Fld("description", "str", TRUE),
    Fld("zip_code", "int", TRUE),
    Fld("entry_fee", "float", FALSE), RatingField }

WeatherDetails ==
  { Fld("location_name", "str", TRUE), Fld("local_time", "datetime", TRUE),
    Fld("coordinates", "list", TRUE), Fld("weather_descriptions", "str", TRUE),
    Fld("temparature", "float", TRUE), Fld("feels_like", "float", TRUE),
    Fld("Precipitation", "float", TRUE) }

StockDetails ==
  { Fld("company_name", "str", TRUE), Fld("ticker", "str", TRUE),
    Fld("company_description", "str", TRUE), Fld("sector", "str", TRUE),
    Fld("industry", "str", TRUE), Fld("market_capitalization", "str", TRUE),
    Fld("stock_exchange", "str", TRUE), Fld("current_stock_price", "float", TRUE),
    Fld("v_52_week_high", "float", TRUE), Fld("v_52_week_low", "float", TRUE),
    Fld("company_news", "list", TRUE) }

\* result_type of each agent: a list of models, one model, or str.
ResultKind(a) ==
  CASE a \in {"travel_agent_day1", "travel_agent_day2"} -> "list"
    [] a = "finance_agent" -> "str"
    [] OTHER -> "model"

Schema(a) ==
  CASE a = "travel_agent_day1" -> TouristPlaceDay1
    [] a = "travel_agent_day2" -> TouristPlaceDay2
    [] a = "weather_agent" -> WeatherDetails
    [] a = "market_research_agent" -> StockDetails
    [] OTHER -> {}

(***************************************************************************)
(* pydantic validation of one value against a field type (lax mode).       *)
(* A value is [t, v]: t its JSON/Python kind, v its number.  The result is *)
(* the set holding the converted value, empty when validation fails.       *)
(***************************************************************************)
Val(t, v) == [t |-> t, v |-> v]

Coerce(ty, x) ==
  CASE ty = "str" ->
         IF x.t \in {"str", "numstr"} THEN {x} ELSE {}
    [] ty = "int" ->
         IF x.t = "int" THEN {x}
         ELSE IF x.t \in {"numstr", "float"} /\ x.v % 10 = 0
              THEN {Val("int", x.v \div 10)}
              ELSE {}
    [] ty = "float" ->
         IF x.t = "float" THEN {x}
         ELSE IF x.t = "numstr" THEN {Val("float", x.v)}
         ELSE IF x.t = "int" THEN {Val("float", x.v * 10)}
         ELSE {}
    [] ty = "datetime" ->
         IF x.t \in {"datetime", "int", "float"} THEN {Val("datetime", x.v)} ELSE {}
    [] ty = "list" ->
         IF x.t = "list" THEN {x} ELSE {}
    [] OTHER -> {}

\* InRange without the upper bound.
InRangeNoLe(f, y) ==
  \A lo \in f.ge : y.v >= lo

\* InRange with the upper bound excluded.
InRangeOpenLe(f, y) ==
  /\ \A lo \in f.ge : y.v >= lo
  /\ \A hi \in f.le : y.v < hi

\* ge / le of Field(...), checked on the converted value.
InRange(f, y) ==
  /\ \A lo \in f.ge : y.v >= lo
  /\ \A hi \in f.le : y.v <= hi

\* Validation of one field of an item: the set of validated values.
ValidateField(f, item) ==
  IF f.name \in DOMAIN item
  THEN IF ~f.required /\ item[f.name].t = "none"
       THEN {Val("none", 0)}
       ELSE { y \in Coerce(f.type, item[f.name]) : InRange(f, y) }
  ELSE IF f.required THEN {} ELSE {Val("none", 0)}

FieldNames(schema) == { f.name : f \in schema }

FieldOf(schema, n) == CHOOSE f \in schema : f.name = n

\* BaseModel validation of one item: every field validates.
ValidItem(schema, item) ==
  \A f \in schema : ValidateField(f, item) # {}

\* The validated model instance.
ValidatedItem(schema, item) ==
  [ n \in FieldNames(schema) |->
      CHOOSE y \in ValidateField(FieldOf(schema, n), item) : TRUE ]

\* Validation of a final_result payload: a sequence of items (one item when
\* result_type is a single model).
ValidPayload(a, p) ==
  /\ ResultKind(a) = "model" => Len(p) = 1
  /\ \A i \in 1..Len(p) : ValidItem(Schema(a), p[i])

ValidatedPayload(a, p) ==
  [ i \in 1..Len(p) |-> ValidatedItem(Schema(a), p[i]) ]

(***************************************************************************)
(* What the model endpoint and the backends may send.                      *)
(***************************************************************************)
BaseValue(f) ==
  CASE f.type = "str" -> Val("str", 0)
    [] f.type = "int" -> Val("int", 10028)
    [] f.type = "float" -> Val("float", 45)
    [] f.type = "datetime" -> Val("datetime", 0)
    [] OTHER -> Val("list", 0)

BaseItem(schema) == [ n \in FieldNames(schema) |-> BaseValue(FieldOf(schema, n)) ]

Without(item, n) == [ m \in (DOMAIN item) \ {n} |-> item[m] ]

With(item, n, x) == [ m \in DOMAIN item |-> IF m = n THEN x ELSE item[m] ]

\* Values tried in a field with a range: below it, its ends, above it, an
\* int, a numeric string and a word.
RangeInputs ==
  { Val("float", 0 - 1), Val("float", 0), Val("float", 50), Val("float", 72),
    Val("int", 5), Val("numstr", 45), Val("str", 0) }

\* Values tried in a numeric field: a numeric string and a fractional number.
NumberInputs == { Val("numstr", 40), Val("float", 100285) }

ItemInputs(schema) ==
  {BaseItem(schema)}
    \cup { Without(BaseItem(schema), n) : n \in FieldNames(schema) }
    \cup { With(BaseItem(schema), f.name, x) :
             f \in { g \in schema : g.ge # {} \/ g.le # {} }, x \in RangeInputs }
    \cup { With(BaseItem(schema), f.name, x) :
             f \in { g \in schema : g.type \in {"int", "float"} }, x \in NumberInputs }
    \cup { With(BaseItem(schema), f.name, Val("none", 0)) :
             f \in { g \in schema : g.type = "float" } }

\* The sequences over S of length at most n.
SeqsUpTo(S, n) == UNION { [1..k -> S] : k \in 0..n }

\* Payloads of a final_result call.
PayloadInputs ==
  [ a \in Agents |->
      IF ResultKind(a) = "list" THEN SeqsUpTo(ItemInputs(Schema(a)), MaxPlaces)
      ELSE { <<x>> : x \in ItemInputs(Schema(a)) } \cup {<<>>} ]

\* The final answers a response may carry, each as the answer to validate.
FinalAnswers == [ a \in Agents |-> { {p} : p \in PayloadInputs[a] } ]

\* The tools that are tried with arguments that fail validation.
BadArgsTools == {"get_current_weather_details", "get_stock_ticker_symbol"}

\* Tool calls a response may carry: a declared tool with arguments that do
\* or do not validate against its parameters, or a name that is not declared.
CallInputs(a) ==
  { [tool |-> t, args_ok |-> TRUE] : t \in Tools(a) \cup {UndeclaredTool} }
    \cup { [tool |-> t, args_ok |-> FALSE] : t \in Tools(a) \cap BadArgsTools }

CallLists == [ a \in Agents |-> SeqsUpTo(CallInputs(a), MaxCalls) \ {<<>>} ]

(***************************************************************************)
(* State of one run_sync call.                                             *)
(***************************************************************************)
VARIABLES
  agent,          \* the agent that is run
  api_key,        \* deps' API key: "set" or "None" (os.getenv found nothing)
  request_limit,  \* UsageLimits.request_limit of the run
  pc,             \* Started, ModelRequest, AwaitingCompletion, ExecutingTools,
                  \* Validating, Done, Failed
  error,          \* the exception run_sync raises, "" while there is none
  requests,       \* usage.requests: model requests made
  retries,        \* the run's result retries
  tool_retry,     \* Tool.current_retry of each tool
  calls,          \* tool calls of the current turn's response, as proposed
  tasks,          \* the task of each call: state, exception, work done
  started,        \* the calls whose function began, in the order they began
  parts,          \* parts of the request that answers the response
  corrective,     \* model requests that carried a validation retry prompt
  answer,         \* the final answer being validated, {} when none
  finals,         \* final answers the model gave
  tools_ok,       \* every tool call so far was well formed and returned
  result,         \* result.data, {} until the run is Done
  iteration,      \* the pass of the script's input loop, 1 for a single run
  earlier         \* the conversation of the request served before this one

vars ==
  << agent, api_key, request_limit, pc, error, requests, retries, tool_retry,
     calls, tasks, started, parts, corrective, answer, finals, tools_ok,
     result, iteration, earlier >>

Terminal == {"Done", "Failed"}

\* NewTask that makes a task for every name, declared or not.
NewTaskAnyName(c) ==
  [ state |-> "pending", exc |-> "", attempts |-> 0, net |-> FALSE ]

\* The function-tool lookup by name: a task for a declared tool, none for a
\* name that is not registered.
NewTask(c) ==
  [ state |-> IF c.tool = UndeclaredTool THEN "unknown" ELSE "pending",
    exc |-> "", attempts |-> 0, net |-> FALSE ]

Init ==
  /\ agent \in Agents
  /\ api_key \in (IF HasApiKey(agent) THEN {"set", "None"} ELSE {"set"})
  /\ request_limit \in 1..MaxTurns
  /\ pc = "Started"
  /\ error = ""
  /\ requests = 0
  /\ retries = 0
  /\ tool_retry = [t \in AllTools |-> 0]
  /\ calls = <<>>
  /\ tasks = <<>>
  /\ started = <<>>
  /\ parts = <<>>
  /\ corrective = 0
  /\ answer = {}
  /\ finals = 0
  /\ tools_ok = TRUE
  /\ result = {}
  /\ iteration = 1
  /\ earlier = <<>>

\* run_sync: the system prompt and the user prompt open the conversation.
Start ==
  /\ pc = "Started"
  /\ pc' = "ModelRequest"
  /\ UNCHANGED << iteration, earlier, agent, api_key, request_limit, error, requests, retries,
                  tool_retry, calls, tasks, started, parts, corrective,
                  answer, finals, tools_ok, result >>

\* check_before_request that lets one request too many through.
CheckBeforeRequestLate(u, limit) == u > limit

\* UsageLimits.check_before_request: the next request would pass the limit.
CheckBeforeRequest(u, limit) == u >= limit

\* The run stops before a request that the limit forbids.
UsageLimitExceeded ==
  /\ pc = "ModelRequest"
  /\ CheckBeforeRequest(requests, request_limit)
  /\ pc' = "Failed"
  /\ error' = "UsageLimitExceeded"
  /\ UNCHANGED << iteration, earlier, agent, api_key, request_limit, requests, retries, tool_retry,
                  calls, tasks, started, parts, corrective, answer, finals,
                  tools_ok, result >>

\* A retry prompt for the final result is among the parts being sent.
CarriesValidationRetry ==
  \E k \in 1..Len(parts) : parts[k].kind = "retry-prompt" /\ parts[k].tool = "final_result"

\* One model request: the parts join the history the model is sent, and
\* usage.requests is counted.  The turn's calls and parts are history from
\* here on; a new turn begins with the response.
SendRequest ==
  /\ pc = "ModelRequest"
  /\ ~CheckBeforeRequest(requests, request_limit)
  /\ requests' = requests + 1
  /\ corrective' = IF CarriesValidationRetry THEN corrective + 1 ELSE corrective
  /\ calls' = <<>>
  /\ tasks' = <<>>
  /\ started' = <<>>
  /\ parts' = <<>>
  /\ pc' = "AwaitingCompletion"
  /\ UNCHANGED << iteration, earlier, agent, api_key, request_limit, error, retries, tool_retry,
                  answer, finals, tools_ok, result >>

\* increment_retries that allows one retry more.
RetriesExceededLate(n, a) == n > AgentRetries(a) + 1

\* increment_retries: the run's retries are used up.
RetriesExceeded(n, a) == n > AgentRetries(a)

Part(k, t, i) == [kind |-> k, tool |-> t, idx |-> i]

RECURSIVE UnknownParts(_, _)
UnknownParts(cs, i) ==
  IF i > Len(cs) THEN <<>>
  ELSE IF cs[i].tool = UndeclaredTool
       THEN <<Part("retry-prompt", cs[i].tool, i)>> \o UnknownParts(cs, i + 1)
       ELSE UnknownParts(cs, i + 1)

\* The response proposes tool calls.  A call to a name the agent has not
\* registered gets an unknown-tool retry prompt and counts against the run's
\* retries; the others become tasks.
ModelToolCalls ==
  /\ pc = "AwaitingCompletion"
  /\ calls' \in CallLists[agent]
  /\ tasks' = [i \in 1..Len(calls') |-> NewTask(calls'[i])]
  /\ started' = <<>>
  /\ LET unknown == UnknownParts(calls', 1)
     IN  /\ retries' = retries + Len(unknown)
         /\ tools_ok' = (tools_ok /\ \A i \in 1..Len(calls') :
                           calls'[i].tool # UndeclaredTool /\ calls'[i].args_ok)
         /\ IF RetriesExceeded(retries + Len(unknown), agent)
            THEN /\ pc' = "Failed"
                 /\ error' = "UnexpectedModelBehavior"
                 /\ parts' = <<>>
            ELSE /\ pc' = "ExecutingTools"
                 /\ error' = error
                 /\ parts' = unknown
  /\ UNCHANGED << iteration, earlier, agent, api_key, request_limit, requests, tool_retry,
                  corrective, answer, finals, result >>

SetTask(i, t) == [tasks EXCEPT ![i] = t]

\* Tool._on_error: one more retry of the tool; past max_retries the run ends.
ToolRetriesExceeded(n, a, t) == n > ToolMaxRetries(a, t)

\* MayStart without the order of the tasks and without the event loop.
MayStartAny(i) == tasks[i].state = "pending"

\* A task may begin when the tasks created before it have begun and no
\* coroutine tool is holding the event loop.
MayStart(i) ==
  /\ tasks[i].state = "pending"
  /\ \A j \in 1..(i - 1) : tasks[j].state # "pending"
  /\ \A j \in 1..Len(tasks) : tasks[j].state = "running" => ~IsAsync(calls[j].tool)

\* Tool.run with arguments that fail validation: the function is not called;
\* the model gets a retry prompt until the tool's retries are used up.
ToolArgsInvalid(i) ==
  /\ pc = "ExecutingTools"
  /\ i \in 1..Len(calls)
  /\ MayStart(i)
  /\ ~calls[i].args_ok
  /\ LET t == calls[i].tool
     IN  /\ tool_retry' = [tool_retry EXCEPT ![t] = @ + 1]
         /\ tasks' = SetTask(i,
              IF ToolRetriesExceeded(tool_retry[t] + 1, agent, t)
              THEN [tasks[i] EXCEPT !.state = "raised", !.exc = "UnexpectedModelBehavior"]
              ELSE [tasks[i] EXCEPT !.state = "retry"])
  /\ UNCHANGED << iteration, earlier, agent, api_key, request_limit, pc, error, requests, retries,
                  calls, started, parts, corrective, answer, finals,
                  tools_ok, result >>

\* get_current_weather_details raises UserError before it builds the request
\* when the key is None; the other tools do not look at the key.
ChecksApiKey(t) == t = "get_current_weather_details"

\* The function of a call begins.  Every tool's body is one request to its
\* backend; get_current_weather_details first checks the key.
ToolStart(i) ==
  /\ pc = "ExecutingTools"
  /\ i \in 1..Len(calls)
  /\ MayStart(i)
  /\ calls[i].args_ok
  /\ started' = Append(started, i)
  /\ LET t == calls[i].tool
     IN  IF ChecksApiKey(t) /\ api_key = "None"
         THEN /\ tasks' = SetTask(i, [tasks[i] EXCEPT !.state = "raised",
                                        !.exc = "UserError", !.attempts = @ + 1])
              /\ tools_ok' = FALSE
         ELSE /\ tasks' = SetTask(i, [tasks[i] EXCEPT !.state = "running",
                                        !.net = TRUE, !.attempts = @ + 1])
              /\ tools_ok' = tools_ok
  /\ UNCHANGED << iteration, earlier, agent, api_key, request_limit, pc, error, requests, retries,
                  tool_retry, calls, parts, corrective, answer, finals,
                  result >>

\* The backend answers and the function returns.
ToolReturn(i) ==
  /\ pc = "ExecutingTools"
  /\ i \in 1..Len(calls)
  /\ tasks[i].state = "running"
  /\ tasks' = SetTask(i, [tasks[i] EXCEPT !.state = "returned"])
  /\ tool_retry' = [tool_retry EXCEPT ![calls[i].tool] = 0]
  /\ UNCHANGED << iteration, earlier, agent, api_key, request_limit, pc, error, requests, retries,
                  calls, started, parts, corrective, answer, finals,
                  tools_ok, result >>

\* The backend call raises (connection error, rate limit, bad JSON): the
\* function has no handler, so the exception leaves the task.
ToolRaise(i) ==
  /\ pc = "ExecutingTools"
  /\ i \in 1..Len(calls)
  /\ tasks[i].state = "running"
  /\ tasks' = SetTask(i, [tasks[i] EXCEPT !.state = "raised", !.exc = "BackendError"])
  /\ tools_ok' = FALSE
  /\ UNCHANGED << iteration, earlier, agent, api_key, request_limit, pc, error, requests, retries,
                  tool_retry, calls, started, parts, corrective, answer,
                  finals, result >>

\* Awaiting the tasks re-raises the exception of a task: run_sync raises it.
GatherRaise ==
  /\ pc = "ExecutingTools"
  /\ \E i \in 1..Len(tasks) :
       /\ tasks[i].state = "raised"
       /\ error' = tasks[i].exc
  /\ pc' = "Failed"
  /\ UNCHANGED << iteration, earlier, agent, api_key, request_limit, requests, retries, tool_retry,
                  calls, tasks, started, parts, corrective, answer, finals,
                  tools_ok, result >>

\* TaskParts that keeps the result of one call and loses the later ones.
TaskPartsOneCall(cs, ts, i) ==
  IF i <= Len(cs) /\ ts[i].state = "returned"
  THEN <<Part("tool-return", cs[i].tool, i)>>
  ELSE <<>>

RECURSIVE TaskParts(_, _, _)
TaskParts(cs, ts, i) ==
  IF i > Len(cs) THEN <<>>
  ELSE IF ts[i].state = "returned"
       THEN <<Part("tool-return", cs[i].tool, i)>> \o TaskParts(cs, ts, i + 1)
  ELSE IF ts[i].state = "retry"
       THEN <<Part("retry-prompt", cs[i].tool, i)>> \o TaskParts(cs, ts, i + 1)
  ELSE TaskParts(cs, ts, i + 1)

\* Every task is done: the results follow the unknown-tool prompts, in the
\* order of the calls, and become the next request.
GatherReturn ==
  /\ pc = "ExecutingTools"
  /\ \A i \in 1..Len(tasks) : tasks[i].state \in {"returned", "retry", "unknown"}
  /\ parts' = parts \o TaskParts(calls, tasks, 1)
  /\ pc' = "ModelRequest"
  /\ UNCHANGED << iteration, earlier, agent, api_key, request_limit, error, requests, retries,
                  tool_retry, calls, tasks, started, corrective, answer,
                  finals, tools_ok, result >>

\* The response is a final_result call with a payload.
ModelFinal ==
  /\ ResultKind(agent) # "str"
  /\ pc = "AwaitingCompletion"
  /\ answer' \in FinalAnswers[agent]
  /\ finals' = finals + 1
  /\ pc' = "Validating"
  /\ UNCHANGED << iteration, earlier, agent, api_key, request_limit, error, requests, retries,
                  tool_retry, calls, tasks, started, parts, corrective,
                  tools_ok, result >>

\* pydantic validates the payload.  A failure is sent back as a retry prompt
\* while the run has retries left.
Validate ==
  /\ pc = "Validating"
  /\ answer' = {}
  /\ \E p \in answer :
       IF ValidPayload(agent, p)
       THEN /\ pc' = "Done"
            /\ result' = {ValidatedPayload(agent, p)}
            /\ UNCHANGED << retries, error, parts >>
       ELSE /\ retries' = retries + 1
            /\ result' = result
            /\ IF RetriesExceeded(retries + 1, agent)
               THEN /\ pc' = "Failed"
                    /\ error' = "UnexpectedModelBehavior"
                    /\ parts' = parts
               ELSE /\ pc' = "ModelRequest"
                    /\ error' = error
                    /\ parts' = <<Part("retry-prompt", "final_result", 0)>>
  /\ UNCHANGED << iteration, earlier, agent, api_key, request_limit, requests, tool_retry, calls,
                  tasks, started, corrective, finals, tools_ok >>

\* The response is plain text: the result when result_type is str, else a
\* retry prompt that asks for a function call.
ModelText ==
  /\ pc = "AwaitingCompletion"
  /\ IF ResultKind(agent) = "str"
     THEN /\ pc' = "Done"
          /\ result' = {<<>>}
          /\ finals' = finals + 1
          /\ parts' = <<>>
          /\ UNCHANGED << retries, error, tools_ok >>
     ELSE /\ retries' = retries + 1
          /\ tools_ok' = FALSE
          /\ finals' = finals
          /\ result' = result
          /\ IF RetriesExceeded(retries + 1, agent)
             THEN /\ pc' = "Failed"
                  /\ error' = "UnexpectedModelBehavior"
                  /\ parts' = <<>>
             ELSE /\ pc' = "ModelRequest"
                  /\ error' = error
                  /\ parts' = <<Part("retry-prompt", "", 0)>>
  /\ UNCHANGED << iteration, earlier, agent, api_key, request_limit, requests, tool_retry, calls,
                  tasks, started, corrective, answer >>

\* The scripts whose __main__ is a `while True` loop around run_sync.
LoopAgents == {"travel_agent_day2", "weather_agent"}

\* What a run's conversation holds of its turns, retries and tool failures.
Conversation ==
  [ requests |-> requests, retries |-> retries, tool_retry |-> tool_retry,
    tools_ok |-> tools_ok ]

\* The loop's next pass when the retry counters are kept on the module-level
\* agent and its tools and a new run does not reset them.
NextRequestSharedCounters ==
  /\ agent \in LoopAgents
  /\ pc = "Done"
  /\ iteration < MaxRequests
  /\ iteration' = iteration + 1
  /\ earlier' = <<Conversation>>
  /\ pc' = "ModelRequest"
  /\ error' = ""
  /\ calls' = <<>>
  /\ tasks' = <<>>
  /\ started' = <<>>
  /\ parts' = <<>>
  /\ corrective' = 0
  /\ answer' = {}
  /\ finals' = 0
  /\ tools_ok' = TRUE
  /\ result' = {}
  /\ requests' = 0
  /\ UNCHANGED << agent, api_key, request_limit, retries, tool_retry >>

\* The loop's next pass: the result was printed, input() gave another city,
\* a new deps object is built from the same environment and run_sync is
\* called with the prompt and the deps only, so the run opens a conversation
\* of its own.  A run that raised ended the script: nothing catches it.
NextRequest ==
  /\ agent \in LoopAgents
  /\ pc = "Done"
  /\ iteration < MaxRequests
  /\ iteration' = iteration + 1
  /\ earlier' = <<Conversation>>
  /\ pc' = "ModelRequest"
  /\ error' = ""
  /\ requests' = 0
  /\ retries' = 0
  /\ tool_retry' = [t \in AllTools |-> 0]
  /\ calls' = <<>>
  /\ tasks' = <<>>
  /\ started' = <<>>
  /\ parts' = <<>>
  /\ corrective' = 0
  /\ answer' = {}
  /\ finals' = 0
  /\ tools_ok' = TRUE
  /\ result' = {}
  /\ UNCHANGED << agent, api_key, request_limit >>

Next ==
  \/ Start
  \/ UsageLimitExceeded
  \/ SendRequest
  \/ ModelToolCalls
  \/ \E i \in 1..MaxCalls : ToolArgsInvalid(i)
  \/ \E i \in 1..MaxCalls : ToolStart(i)
  \/ \E i \in 1..MaxCalls : ToolReturn(i)
  \/ \E i \in 1..MaxCalls : ToolRaise(i)
  \/ GatherRaise
  \/ GatherReturn
  \/ ModelFinal
  \/ Validate
  \/ ModelText

Spec == Init /\ [][Next]_vars

\* The model endpoint and the backends answer every request, and the event
\* loop runs every task that is ready.
FairSpec == Spec /\ WF_vars(Next)

\* A step of the script: a step of the run in progress, or the loop's next
\* pass once run_sync has returned.
LoopNext ==
  \/ Next
  \/ NextRequest

LoopSpec == Init /\ [][LoopNext]_vars

(***************************************************************************)
(* The schemas as the claims state them: the kinds and ranges a result     *)
(* must have, written out per result type.                                 *)
(***************************************************************************)
IsStr(x) == x.t \in {"str", "numstr"}

IsFloat(x) == x.t = "float"

IsInt(x) == x.t = "int"

IsOptionalFloat(x) == x.t \in {"float", "none"}

RatingInRange(x) == x.t = "float" /\ x.v >= 0 /\ x.v <= 50

TouristPlaceOK(a, r) ==
  /\ {"name", "description", "zip_code", "entry_fee", "rating"} \subseteq DOMAIN r
  /\ IsStr(r.name) /\ IsStr(r.description) /\ IsInt(r.zip_code)
  /\ IsOptionalFloat(r.entry_fee)
  /\ RatingInRange(r.rating)
  /\ a = "travel_agent_day1" =>
       "best_time_to_visit" \in DOMAIN r /\ IsStr(r.best_time_to_visit)

WeatherDetailsOK(r) ==
  /\ DOMAIN r = { "location_name", "local_time", "coordinates",
                  "weather_descriptions", "temparature", "feels_like",
                  "Precipitation" }
  /\ IsStr(r.location_name) /\ r.local_time.t = "datetime"
  /\ r.coordinates.t = "list" /\ IsStr(r.weather_descriptions)
  /\ IsFloat(r.temparature) /\ IsFloat(r.feels_like) /\ IsFloat(r.Precipitation)

StockDetailsOK(r) ==
  /\ DOMAIN r = { "company_name", "ticker", "company_description", "sector",
                  "industry", "market_capitalization", "stock_exchange",
                  "current_stock_price", "v_52_week_high", "v_52_week_low",
                  "company_news" }
  /\ IsStr(r.company_name) /\ IsStr(r.ticker) /\ IsStr(r.company_description)
  /\ IsStr(r.sector) /\ IsStr(r.industry) /\ IsStr(r.market_capitalization)
  /\ IsStr(r.stock_exchange) /\ IsFloat(r.current_stock_price)
  /\ IsFloat(r.v_52_week_high) /\ IsFloat(r.v_52_week_low)
  /\ r.company_news.t = "list"

\* d satisfies the result type of agent a.
SatisfiesSchema(a, d) ==
  CASE a \in {"travel_agent_day1", "travel_agent_day2"} ->
         \A i \in 1..Len(d) : TouristPlaceOK(a, d[i])
    [] a = "weather_agent" -> Len(d) = 1 /\ WeatherDetailsOK(d[1])
    [] a = "market_research_agent" -> Len(d) = 1 /\ StockDetailsOK(d[1])
    [] OTHER -> d = <<>>

\* C1: whenever the run is Done, the result it returned satisfies every
\* constraint of the agent's result schema: each required field is there
\* with its type, and each rating lies in [0.0, 5.0].
C1_DoneResultSatisfiesSchema ==
  pc = "Done" =>
    /\ Cardinality(result) = 1
    /\ \A d \in result : SatisfiesSchema(agent, d)

\* A list of two places was returned after a corrective turn, one of them
\* rated exactly 5.0.
C1_Witness ==
  /\ pc = "Done"
  /\ agent = "travel_agent_day1"
  /\ corrective = 1
  /\ \E d \in result : Len(d) = 2 /\ d[1].rating.v = 50 /\ d[2].rating.v = 0

\* A payload that conforms to the schema as written, with no conversion
\* needed: every field present with its declared kind, ratings in range.
Conforms(a, p) ==
  /\ SatisfiesSchema(a, p)
  /\ \A i \in 1..Len(p) : \A n \in DOMAIN p[i] : p[i][n].t # "numstr"

\* C2: when every completion so far was a list of well-formed calls to
\* declared tools that all returned, and the model now gives its first final
\* answer and it conforms to the schema, the run ends Done with a result
\* that satisfies the schema; and a run whose completions were all of that
\* kind fails only because no final answer came within request_limit.
C2_WellFormedRunSucceeds ==
  /\ [][ ( /\ pc = "Validating"
           /\ tools_ok /\ retries = 0 /\ finals = 1
           /\ \A p \in answer : Conforms(agent, p) )
         => ( /\ pc' = "Done"
              /\ \A d \in result' : SatisfiesSchema(agent, d)
              /\ result' # {} ) ]_vars
  /\ [][ ( /\ pc = "AwaitingCompletion" /\ pc' \in Terminal
           /\ ResultKind(agent) = "str" /\ tools_ok )
         => pc' = "Done" ]_vars
  /\ []( (pc = "Failed" /\ tools_ok /\ retries = 0)
           => ( /\ error = "UsageLimitExceeded"
                /\ finals = 0
                /\ requests = request_limit ) )

\* A run Done after a turn of tool calls that returned and one conforming
\* final answer with a rating of 5.0.
C2_Witness ==
  /\ pc = "Done"
  /\ tools_ok /\ retries = 0 /\ finals = 1
  /\ requests >= 2
  /\ agent = "weather_agent"

\* C3: the number of model requests made never exceeds request_limit.
C3_RequestsWithinLimit == requests <= request_limit

\* The limit is reached after a corrective turn and the run then stops.
C3_Witness ==
  /\ pc = "Failed" /\ error = "UsageLimitExceeded"
  /\ requests = request_limit /\ request_limit >= 2
  /\ corrective >= 1

\* Call i of the turn has a part of kind k in the request that answers it.
HasPart(i, k) ==
  \E n \in 1..Len(parts) : parts[n].idx = i /\ parts[n].kind = k

\* Call i has a recorded result: a tool return or a retry prompt.
Resolved(i) == HasPart(i, "tool-return") \/ HasPart(i, "retry-prompt")

SomeTaskRaised == \E i \in 1..Len(tasks) : tasks[i].state = "raised"

\* C4 as claimed: in every terminal state, every tool invocation that was
\* started has a recorded result in the conversation.
C4_NoDanglingToolCall ==
  pc \in Terminal => \A n \in 1..Len(started) : Resolved(started[n])

\* C4 amended: every run reaches Done or Failed; Done has a validated
\* result; and a started tool invocation is left without a recorded result
\* only in a run that failed with the exception a tool of that turn raised.
C4_TerminatesResolvedUnlessToolRaised ==
  /\ <>(pc \in Terminal)
  /\ [](pc = "Done" => result # {})
  /\ []( (pc \in Terminal /\ ~SomeTaskRaised)
           => \A n \in 1..Len(started) : Resolved(started[n]) )
  /\ []( (pc \in Terminal /\ SomeTaskRaised)
           => ( /\ pc = "Failed"
                /\ \E i \in 1..Len(tasks) :
                     tasks[i].state = "raised" /\ tasks[i].exc = error ) )

\* A run that ran out of requests after a turn in which two tools returned.
C4_Witness ==
  /\ pc = "Failed" /\ error = "UsageLimitExceeded"
  /\ Len(started) = 2
  /\ \A n \in 1..Len(started) : HasPart(started[n], "tool-return")

\* C5 as claimed: a run that has used request_limit requests and has no
\* result has failed with UsageLimitExceeded, whatever its last turn was.
C5_BudgetErrorOnly ==
  (pc \in Terminal /\ requests = request_limit /\ result = {})
    => error = "UsageLimitExceeded"

\* C5 amended: when another model request is due after request_limit
\* requests, the run fails with UsageLimitExceeded and sends nothing; with
\* request_limit = 1 and a first completion of tool calls the run ends
\* Failed, with UsageLimitExceeded when every call got its result, and else
\* with the exception a tool raised or with the retries used up.
C5_BudgetExhaustedFails ==
  /\ [][ (pc = "ModelRequest" /\ requests >= request_limit)
         => ( /\ pc' = "Failed" /\ error' = "UsageLimitExceeded"
              /\ requests' = requests ) ]_vars
  /\ [](error = "UsageLimitExceeded" => (pc = "Failed" /\ requests = request_limit))
  /\ []( (request_limit = 1 /\ pc \in Terminal /\ Len(calls) > 0)
           => ( /\ pc = "Failed"
                /\ (\A i \in 1..Len(calls) : Resolved(i))
                     <=> error = "UsageLimitExceeded"
                /\ error # "UsageLimitExceeded"
                     => \/ ( /\ SomeTaskRaised
                             /\ \E i \in 1..Len(tasks) : tasks[i].exc = error )
                        \/ ( /\ error = "UnexpectedModelBehavior"
                             /\ retries > AgentRetries(agent) ) ) )

\* request_limit = 1, the first completion was a tool call that returned,
\* and the run failed on the budget.
C5_Witness ==
  /\ request_limit = 1
  /\ pc = "Failed" /\ error = "UsageLimitExceeded"
  /\ Len(calls) = 1 /\ HasPart(1, "tool-return")

\* The function of call i was entered or its backend was reached.
Executed(i) == tasks[i].attempts > 0 \/ tasks[i].net \/ tasks[i].state = "running"

\* C6: every tool function that is executed belongs to a tool the agent
\* declares; a call to a name that is not declared is answered with the
\* unknown-tool error (a retry prompt for that call, or the run failing on
\* its retries) and no function is executed for it.
C6_OnlyDeclaredToolsRun ==
  \A i \in 1..Len(calls) :
    /\ Executed(i) => calls[i].tool \in Tools(agent)
    /\ \A n \in 1..Len(started) : calls[started[n]].tool \in Tools(agent)
    /\ calls[i].tool \notin Tools(agent) =>
         /\ ~Executed(i)
         /\ tasks[i].state = "unknown"
         /\ \/ HasPart(i, "retry-prompt")
            \/ pc = "Failed" /\ error = "UnexpectedModelBehavior"

\* A response named an undeclared tool next to a declared one: the declared
\* one ran and returned, the other got its retry prompt.
C6_Witness ==
  /\ pc = "ModelRequest"
  /\ Len(calls) = 2
  /\ calls[1].tool = UndeclaredTool /\ HasPart(1, "retry-prompt")
  /\ calls[2].tool \in Tools(agent) /\ HasPart(2, "tool-return")

\* C7 as claimed: a tool invocation whose backend call fails has been
\* attempted max_retries + 1 times, and its error is not what the caller
\* of run_sync gets.
C7_FailingToolRetriedThenReported ==
  /\ \A i \in 1..Len(calls) :
       (tasks[i].state = "raised" /\ tasks[i].exc = "BackendError")
         => tasks[i].attempts = ToolMaxRetries(agent, calls[i].tool) + 1
  /\ pc = "Failed" => error # "BackendError"

C9_MissingKeyStopsEveryTool ==
  \A i \in 1..Len(calls) :
    (TakesCtx(calls[i].tool) /\ api_key = "None") =>
      /\ ~tasks[i].net
      /\ tasks[i].attempts > 0 =>
           tasks[i].state = "raised" /\ tasks[i].exc = "UserError"

\* At most one tool function is in progress.
OneAtATime ==
  \A i, j \in 1..Len(tasks) :
    (tasks[i].state = "running" /\ tasks[j].state = "running") => i = j

\* The sequence of call numbers q is increasing.
Increasing(q) == \A m, n \in 1..Len(q) : m < n => q[m] < q[n]

\* The tool-return parts, as call numbers in the order they were appended.
ReturnOrder == SelectSeq(parts, LAMBDA x : x.kind = "tool-return")

\* C10 as claimed: the calls of a turn begin in the order proposed, at most
\* one is in progress at any time, and the results are appended in the order
\* proposed.
C10_SequentialInOrder ==
  /\ OneAtATime
  /\ Increasing(started)
  /\ Increasing([n \in 1..Len(ReturnOrder) |-> ReturnOrder[n].idx])

\* C10 amended: the results of a turn's invocations are appended in the
\* order the model proposed the calls; the coroutine tools of
\* market_research_agent and finance_agent run one at a time in that order,
\* each finishing before the next begins; calls of weather_agent's
\* synchronous tool run in worker threads and may be in progress together.
C10_ResultsInOrderCoroutinesSequential ==
  /\ Increasing([n \in 1..Len(ReturnOrder) |-> ReturnOrder[n].idx])
  /\ agent # "weather_agent" =>
       /\ OneAtATime
       /\ Increasing(started)
       /\ \A n \in 1..Len(started) :
            tasks[started[n]].state = "running" => n = Len(started)

\* Two tools of market_research_agent ran in one turn and both results are
\* in the next request.
C10_Witness ==
  /\ agent = "market_research_agent"
  /\ pc = "ModelRequest"
  /\ started = <<1, 2>>
  /\ HasPart(1, "tool-return") /\ HasPart(2, "tool-return")
  /\ calls[1].tool # calls[2].tool

(***************************************************************************)
(* Requests of the input loop.                                             *)
(***************************************************************************)
\* The conversation a run_sync call opens.
EmptyConversation ==
  [ requests |-> 0, retries |-> 0, tool_retry |-> [t \in AllTools |-> 0],
    tools_ok |-> TRUE ]

\* The request in progress had no failure of its own: no malformed tool
\* call, no raising tool, no rejected final answer.
NoFailureOfItsOwn == tools_ok /\ finals <= (IF pc = "Done" THEN 1 ELSE 0)

====
